---- MODULE Spec2Model ----
(***************************************************************************)
(* Model of of-core: the HTTP fleet managers (ProducerManager,             *)
(* ConsumerManager) and the Kafka stream consumer (KafkaMessageConsumer).  *)
(*                                                                         *)
(* SpecFleet  : start_all_* / stop_all_* of one manager over its workers.  *)
(* SpecKafka  : constructor, topic refresh and the consumption loop.       *)
(***************************************************************************)
EXTENDS Integers, Sequences, FiniteSets, TLC

(***************************************************************************)
(* Bounds of the model.                                                    *)
(***************************************************************************)
NumWorkers == 2
MaxTopics == 2
MaxDispatch == 2

(***************************************************************************)
(* Program constants.                                                      *)
(***************************************************************************)
ProducerHealthTimeout == 20
ConsumerHealthTimeout == 60
HealthRequestTimeout == 5
PollInterval == 2
InitialRetryDelay == 1
MaxRetryDelay == 60

Workers == 1..NumWorkers
Kinds == {"producer", "consumer"}
Addrs == {"host", "ip"}

(***************************************************************************)
(* HTTP responses.  err = "request" is a requests.exceptions               *)
(* RequestException (connection refused, timeout, ...), err = "other" any  *)
(* other exception raised by the call; otherwise a response with a status  *)
(* code and, for /health, a body.  Body kinds: "nojson" (resp.json()       *)
(* raises), "list" (JSON that is not a mapping), "nomarker" (a mapping     *)
(* without any marker key), or a mapping holding exactly the named key.    *)
(***************************************************************************)
Statuses == {200, 304, 500}
Bodies == {"nojson", "list", "nomarker", "running", "configured",
           "config_loaded", "vehicle"}
NoResp == [err |-> "none", status |-> 0, body |-> "nojson"]
Failure(e) == [err |-> e, status |-> 0, body |-> "nojson"]
HealthResponses ==
    {Failure(e) : e \in {"request", "other"}}
    \cup [err : {"none"}, status : Statuses, body : Bodies]
PostResponses ==
    {Failure(e) : e \in {"request", "other"}}
    \cup [err : {"none"}, status : Statuses, body : {"nojson"}]

\* requests.Response.ok: raise_for_status() does not raise
RaisesForStatus(r) == r.status >= 400 /\ r.status < 600
Ok(r) == ~RaisesForStatus(r)
Is2xx(r) == r.err = "none" /\ r.status >= 200 /\ r.status < 300

\* the marker keys each manager looks for in the /health body
MarkerKeys(k) ==
    IF k = "producer" THEN {"running", "config_loaded", "vehicle"}
    ELSE {"running", "configured"}

\* isinstance(data, dict) and (marker in data ...)
LooksLikeWorker(k, body) == body \in MarkerKeys(k)

\* one iteration of the health loop accepts the candidate
HealthAccepted(k, r) ==
    /\ r.err = "none"
    /\ Ok(r)
    /\ r.body # "nojson"
    /\ LooksLikeWorker(k, r.body)

\* an exception raised by the health GET leaves the polling loop
HealthPropagates(k, r) == k = "producer" /\ r.err = "other"

HealthTimeout(k) ==
    IF k = "producer" THEN ProducerHealthTimeout ELSE ConsumerHealthTimeout

\* the order in which the candidate URLs are tried
FirstCandidate_Direct == "ip"
FirstCandidate == "host"
NextCandidate(c) == IF c = "host" THEN "ip" ELSE "none"

\* a POST (or the status GET) followed by raise_for_status() raised
PostFailed(r) == r.err # "none" \/ RaisesForStatus(r)

VARIABLES
    kind,        \* which manager this is
    vehicles,    \* len(cfg.vehicles): the first `vehicles` workers are configured
    ip,          \* ip[w]: the direct address of w is known (non-empty)
    op,          \* "idle", "start_all", "stop_all"
    i,           \* position of the fleet loop
    pc,          \* position inside start_* of worker i
    cand,        \* candidate URL under health polling
    remaining,   \* deadline - time.time() of the current health wait
    api_url,     \* selected URL: "none", "host", "ip"
    results,     \* the list start_all_* builds
    raised,      \* an exception escaped the fleet operation
    started,     \* start_all_* has returned
    stopDone,    \* stop_all_* has ended (returned or raised)
    polled,      \* candidates whose /health was requested in this start attempt
    healthy2xx,  \* candidates that answered 2xx with a marker body
    validSeen,   \* candidates one of whose answers the health loop accepted
    selected,    \* result of the probe: "pending", "none", "host", "ip"
    hostLeft,    \* time left to the first candidate when the second was taken
    sentTo,      \* addresses that got POST /configure or /start
    cfgResp,     \* response to POST /configure in this start attempt
    startResp,   \* response to POST /start in this start attempt
    statusResp,  \* response to GET /status in this start attempt
    stopSent,    \* stopSent[w]: the POST /stop requests of the stop call
    stopOutcome  \* stopOutcome[w]: "none", "stopped", "failed"

fleetVars == <<kind, vehicles, ip, op, i, pc, cand, remaining, api_url,
               results, raised, started, stopDone, polled, healthy2xx,
               validSeen, selected, hostLeft, sentTo, cfgResp, startResp, statusResp, stopSent, stopOutcome>>

VARIABLES
    kpc,            \* the owner: "new", "failed", "constructed", "started",
                    \*   "joining", "stop_raised", "stopped"
    cpc,            \* consuming thread: "idle", "loop", "except", "finally", "done"
    rpc,            \* resubscription thread: "idle", "check", "sleep", "done"
    brokerTopics,   \* the topics the broker currently has
    current_topics, \* self.current_topics
    is_running,     \* self.is_running
    retry_delay,    \* self.retry_delay
    handle,         \* self.consumer: "none", "open", "closed"
    subscription,   \* what the last consumer.subscribe call asked for
    closeCalls,     \* number of close() calls on the handle
    fatal,          \* the exception `e` of the except clause of read_messages:
                    \*   which call raised it; "none" outside the clause
    dispatched,     \* payloads handed to process_message_routine, in order
    deserialized,   \* payloads deserialize_message returned a value for, in order
    lastUpdate,     \* record of the last topic_update call
    ctor            \* the construction, until start(): the broker had no topic,
                    \*   the broker calls that raised

kafkaVars == <<kpc, cpc, rpc, brokerTopics, current_topics, is_running,
               retry_delay, handle, subscription, closeCalls, fatal,
               dispatched, deserialized, lastUpdate, ctor>>

VARIABLES
    default_anomaly_classes, \* anomaly_classes of the default configuration
    cfg_vehicles,            \* cfg.vehicles: one entry per vehicle
    vehicle_configs          \* the resolved anomaly_classes, in cfg.vehicles order

labelVars == <<default_anomaly_classes, cfg_vehicles, vehicle_configs>>

vars == <<fleetVars, kafkaVars, labelVars>>

\* what is recorded about the start attempt of the current worker
histVars == <<polled, healthy2xx, validSeen, selected, hostLeft, sentTo, cfgResp, startResp, statusResp>>
stopVars == <<stopDone, stopSent, stopOutcome>>
cfgVars == <<kind, vehicles, ip>>

ResetHist ==
    /\ polled' = {}
    /\ healthy2xx' = {}
    /\ validSeen' = {}
    /\ selected' = "pending"
    /\ hostLeft' = 1
    /\ sentTo' = {}
    /\ cfgResp' = NoResp
    /\ startResp' = NoResp
    /\ statusResp' = NoResp

ResetStop ==
    /\ stopDone' = FALSE
    /\ stopSent' = [w \in Workers |-> <<>>]
    /\ stopOutcome' = [w \in Workers |-> "none"]

FleetFields ==
    /\ op = "idle"
    /\ i = 1
    /\ pc = "loop"
    /\ cand = "none"
    /\ remaining = 0
    /\ api_url = "none"
    /\ results = <<>>
    /\ raised = FALSE
    /\ started = FALSE
    /\ stopDone = FALSE
    /\ polled = {}
    /\ healthy2xx = {}
    /\ validSeen = {}
    /\ selected = "pending"
    /\ hostLeft = 1
    /\ sentTo = {}
    /\ cfgResp = NoResp
    /\ startResp = NoResp
    /\ statusResp = NoResp
    /\ stopSent = [w \in Workers |-> <<>>]
    /\ stopOutcome = [w \in Workers |-> "none"]

FleetStart ==
    /\ kind \in Kinds
    /\ vehicles \in 0..NumWorkers
    /\ ip \in [Workers -> BOOLEAN]
    /\ FleetFields

Min(a, b) == IF a < b THEN a ELSE b

\* start_all_producers: zip(self.producers.keys(), self.vehicle_names);
\* start_all_consumers: self.consumers.items()
StartCount ==
    IF kind = "producer" THEN Min(NumWorkers, vehicles) ELSE NumWorkers

\* the manager has a configuration for worker w
HasConfig(w) == w <= vehicles

Outcome(w, success) == [w |-> w, ok |-> success]

\* start_* returns an outcome; the fleet loop appends it and moves on
Return(success) ==
    /\ results' = Append(results, Outcome(i, success))
    /\ i' = i + 1
    /\ pc' = "loop"
    /\ cand' = "none"
    /\ remaining' = 0
    /\ api_url' = "none"

StartAll ==
    /\ op = "idle"
    /\ op' = "start_all"
    /\ i' = 1
    /\ pc' = "loop"
    /\ results' = <<>>
    /\ raised' = FALSE
    /\ started' = FALSE
    /\ ResetHist
    /\ ResetStop
    /\ UNCHANGED <<cfgVars, cand, remaining, api_url>>
    /\ UNCHANGED <<kafkaVars, labelVars>>

\* the for loop of start_all_*: next worker, or return the results
StartLoop ==
    /\ op = "start_all"
    /\ pc = "loop"
    /\ IF i <= StartCount
       THEN /\ pc' = "begin"
            /\ UNCHANGED <<op, started>>
       ELSE /\ op' = "idle"
            /\ started' = TRUE
            /\ pc' = "loop"
    /\ UNCHANGED <<cfgVars, i, cand, remaining, api_url, results, raised>>
    /\ UNCHANGED <<histVars, stopVars>>
    /\ UNCHANGED <<kafkaVars, labelVars>>

\* start_producer: lines 77-84; start_consumer: lines 44-49
StartBegin ==
    /\ op = "start_all"
    /\ pc = "begin"
    /\ ResetHist
    /\ IF (kind = "producer" /\ ~ip[i]) \/ (kind = "consumer" /\ ~HasConfig(i))
       THEN Return(FALSE)
       ELSE /\ pc' = "health"
            /\ cand' = FirstCandidate
            /\ remaining' = HealthTimeout(kind)
            /\ UNCHANGED <<results, i, api_url>>
    /\ UNCHANGED <<cfgVars, op, raised, started, stopVars>>
    /\ UNCHANGED <<kafkaVars, labelVars>>

\* the URL of the consumer's direct address is malformed when the address is empty
Reachable(w, c, r) ==
    (kind = "consumer" /\ c = "ip" /\ ~ip[w]) => r.err # "none"

\* one iteration of the while loop of _wait_for_health / wait_for_health
HealthPoll ==
    /\ op = "start_all"
    /\ pc = "health"
    /\ remaining > 0
    /\ \E r \in HealthResponses, d \in 0..HealthRequestTimeout :
        /\ Reachable(i, cand, r)
        /\ polled' = polled \cup {cand}
        /\ healthy2xx' = IF Is2xx(r) /\ r.body \in MarkerKeys(kind)
                         THEN healthy2xx \cup {cand} ELSE healthy2xx
        /\ IF HealthPropagates(kind, r)
           THEN /\ Return(FALSE)
                /\ UNCHANGED <<validSeen, selected>>
           ELSE IF HealthAccepted(kind, r)
           THEN /\ api_url' = cand
                /\ validSeen' = validSeen \cup {cand}
                /\ selected' = cand
                /\ pc' = "configure"
                /\ UNCHANGED <<results, i, cand, remaining>>
           ELSE /\ remaining' = remaining - d - PollInterval
                /\ UNCHANGED <<results, i, pc, cand, api_url, validSeen,
                               selected>>
    /\ UNCHANGED <<cfgVars, op, raised, started, stopVars, hostLeft,
                   sentTo, cfgResp, startResp, statusResp>>
    /\ UNCHANGED <<kafkaVars, labelVars>>

\* the deadline of the current candidate has passed: next candidate or failure
HealthExpired ==
    /\ op = "start_all"
    /\ pc = "health"
    /\ remaining <= 0
    /\ IF NextCandidate(cand) # "none"
       THEN /\ cand' = NextCandidate(cand)
            /\ remaining' = HealthTimeout(kind)
            /\ hostLeft' = remaining
            /\ UNCHANGED <<results, i, pc, api_url, selected>>
       ELSE /\ Return(FALSE)
            /\ selected' = "none"
            /\ UNCHANGED hostLeft
    /\ UNCHANGED <<cfgVars, op, raised, started, stopVars, polled,
                   healthy2xx, validSeen, sentTo, cfgResp, startResp,
                   statusResp>>
    /\ UNCHANGED <<kafkaVars, labelVars>>

\* build the payload and POST /configure
Configure ==
    /\ op = "start_all"
    /\ pc = "configure"
    /\ \E payloadOk \in BOOLEAN, r \in PostResponses :
        IF ~payloadOk
        THEN /\ Return(FALSE)
             /\ UNCHANGED <<sentTo, cfgResp>>
        ELSE /\ sentTo' = sentTo \cup {api_url}
             /\ cfgResp' = r
             /\ IF PostFailed(r)
                THEN Return(FALSE)
                ELSE /\ pc' = "start"
                     /\ UNCHANGED <<results, i, cand, remaining, api_url>>
    /\ UNCHANGED <<cfgVars, op, raised, started, stopVars,
                   polled, healthy2xx, validSeen, selected, hostLeft,
                   startResp, statusResp>>
    /\ UNCHANGED <<kafkaVars, labelVars>>

\* POST /start
StartPost ==
    /\ op = "start_all"
    /\ pc = "start"
    /\ \E r \in PostResponses :
        /\ sentTo' = sentTo \cup {api_url}
        /\ startResp' = r
        /\ IF PostFailed(r)
           THEN Return(FALSE)
           ELSE IF kind = "producer"
           THEN /\ pc' = "status"
                /\ UNCHANGED <<results, i, cand, remaining, api_url>>
           ELSE Return(TRUE)
    /\ UNCHANGED <<cfgVars, op, raised, started, stopVars,
                   polled, healthy2xx, validSeen, selected, hostLeft,
                   cfgResp, statusResp>>
    /\ UNCHANGED <<kafkaVars, labelVars>>

\* start_producer step 3: GET /status
StatusGet ==
    /\ op = "start_all"
    /\ pc = "status"
    /\ \E r \in PostResponses :
        /\ statusResp' = r
        /\ Return(~PostFailed(r))
    /\ UNCHANGED <<cfgVars, op, raised, started, stopVars,
                   polled, healthy2xx, validSeen, selected, hostLeft,
                   sentTo, cfgResp, startResp>>
    /\ UNCHANGED <<kafkaVars, labelVars>>

Sent(a, r) == [addr |-> a, failed |-> PostFailed(r)]

StopAll ==
    /\ op = "idle"
    /\ op' = "stop_all"
    /\ i' = 1
    /\ raised' = FALSE
    /\ ResetStop
    /\ UNCHANGED <<cfgVars, pc, cand, remaining, api_url, results, started,
                   histVars>>
    /\ UNCHANGED <<kafkaVars, labelVars>>

\* the for loop of stop_all_* has visited every worker
StopReturn ==
    /\ op = "stop_all"
    /\ i > NumWorkers
    /\ op' = "idle"
    /\ stopDone' = TRUE
    /\ UNCHANGED <<cfgVars, i, pc, cand, remaining, api_url, results, raised,
                   started, histVars, stopSent, stopOutcome>>
    /\ UNCHANGED <<kafkaVars, labelVars>>

\* stop_producer of worker i, called from stop_all_producers
StopProducer ==
    /\ op = "stop_all"
    /\ kind = "producer"
    /\ i <= NumWorkers
    /\ IF ~ip[i]
       THEN /\ stopOutcome' = [stopOutcome EXCEPT ![i] = "failed"]
            /\ i' = i + 1
            /\ UNCHANGED <<op, raised, stopDone, stopSent>>
       ELSE \E r \in PostResponses :
            /\ stopSent' = [stopSent EXCEPT ![i] = Append(@, Sent("ip", r))]
            /\ stopOutcome' = [stopOutcome EXCEPT ![i] =
                   IF PostFailed(r) THEN "failed" ELSE "stopped"]
            /\ IF r.err = "other"
               THEN /\ raised' = TRUE
                    /\ op' = "idle"
                    /\ stopDone' = TRUE
                    /\ UNCHANGED i
               ELSE /\ i' = i + 1
                    /\ UNCHANGED <<op, raised, stopDone>>
    /\ UNCHANGED <<cfgVars, pc, cand, remaining, api_url, results, started,
                   histVars>>
    /\ UNCHANGED <<kafkaVars, labelVars>>

\* stop_consumer of worker i, called from stop_all_consumers
StopConsumer ==
    /\ op = "stop_all"
    /\ kind = "consumer"
    /\ i <= NumWorkers
    /\ \E r1 \in PostResponses, r2 \in PostResponses :
        /\ Reachable(i, "ip", r2)
        /\ IF ~PostFailed(r1)
           THEN /\ stopSent' = [stopSent EXCEPT ![i] = <<Sent("host", r1)>>]
                /\ stopOutcome' = [stopOutcome EXCEPT ![i] = "stopped"]
           ELSE IF ip[i]
           THEN /\ stopSent' = [stopSent EXCEPT ![i] =
                       <<Sent("host", r1), Sent("ip", r2)>>]
                /\ stopOutcome' = [stopOutcome EXCEPT ![i] =
                       IF PostFailed(r2) THEN "failed" ELSE "stopped"]
           ELSE /\ stopSent' = [stopSent EXCEPT ![i] = <<Sent("host", r1)>>]
                /\ stopOutcome' = [stopOutcome EXCEPT ![i] = "failed"]
    /\ i' = i + 1
    /\ UNCHANGED <<cfgVars, op, pc, cand, remaining, api_url, results, raised,
                   started, stopDone, histVars>>
    /\ UNCHANGED <<kafkaVars, labelVars>>

FleetNext ==
    \/ StartAll
    \/ StartLoop
    \/ StartBegin
    \/ HealthPoll
    \/ HealthExpired
    \/ Configure
    \/ StartPost
    \/ StatusGet
    \/ StopAll
    \/ StopProducer
    \/ StopConsumer
    \/ StopReturn


(***************************************************************************)
(* KafkaMessageConsumer                                                    *)
(***************************************************************************)
Topics == 1..MaxTopics

\* what consumer.subscribe() can do: return, raise a KafkaError (caught by
\* subscribe()), or raise anything else (KafkaException, RuntimeError)
SubscribeOutcomes == {"ok", "KafkaError", "raise"}

\* subscribe(): the exception leaves the method
SubscribePropagates_NoHandler(out) == out # "ok"
SubscribePropagates(out) == out = "raise"

\* topics_dict: the three category patterns, as opposed to topic names
NumPatterns == 3
Pattern(c) == [pattern |-> TRUE, id |-> c]
TopicName(t) == [pattern |-> FALSE, id |-> t]
CategoryPatterns == {Pattern(c) : c \in 1..NumPatterns}

\* the argument subscribe() passes: list(topics_dict.values())
SubscribeArgs_Names(new_topics) == {TopicName(t) : t \in new_topics}
SubscribeArgs(new_topics) == CategoryPatterns

\* what is asked of the handle after consumer.subscribe(args) was called:
\* a call replaces the earlier request
SubscriptionAfter(before, args) == args

\* topic_update line 85
NewTopics_All(available, current) == available
NewTopics(available, current) == available \ current

\* topic_update line 86
SnapshotAfter_Merge(available, current) == available \cup current
SnapshotAfter(available, current) == available

\* topic_update line 87
Resubscribes(new_topics) == Cardinality(new_topics) > 0

NoUpdate == [ok |-> FALSE, listing |-> {}, prev |-> {}, new |-> {},
             subs |-> 0, back |-> {}]

\* the topics the topic_update recorded in u removed from the snapshot
Removed(u) == IF u.ok THEN u.prev \ u.listing ELSE {}

\* list_topics() raises: the broker call failed, or the handle h is closed
ListRaises(h, listOk) == ~listOk \/ h # "open"

\* what consumer.subscribe() does on the handle h
SubscribeOutcome(h, subOut) == IF h # "open" THEN "raise" ELSE subOut

\* topic_update raises
TopicUpdateRaises(h, listOk, subOut) ==
    \/ ListRaises(h, listOk)
    \/ /\ Resubscribes(NewTopics(brokerTopics, current_topics))
       /\ SubscribePropagates(SubscribeOutcome(h, subOut))

\* topic_update(): what is asked of the handle after it
UpdateSubscription(before, h, listOk) ==
    IF /\ ~ListRaises(h, listOk)
       /\ Resubscribes(NewTopics(brokerTopics, current_topics))
    THEN SubscriptionAfter(before,
                           SubscribeArgs(NewTopics(brokerTopics,
                                                   current_topics)))
    ELSE before

\* the snapshot after a topic_update whose list_topics() raised (line 84
\* raises before line 86 assigns)
SnapshotOnFailure_Cleared(current) == {}
SnapshotOnFailure(current) == current

\* topic_update(): its effect on the snapshot, and what it did
TopicUpdate(h, listOk, subOut) ==
    IF ListRaises(h, listOk)
    THEN /\ lastUpdate' = [NoUpdate EXCEPT !.prev = current_topics]
         /\ current_topics' = SnapshotOnFailure(current_topics)
    ELSE LET available == brokerTopics
             new_topics == NewTopics(available, current_topics)
             after == SnapshotAfter(available, current_topics)
         IN  /\ current_topics' = after
             /\ lastUpdate' = [ok |-> TRUE,
                               listing |-> available,
                               prev |-> current_topics,
                               new |-> new_topics,
                               subs |-> IF Resubscribes(new_topics) THEN 1 ELSE 0,
                               back |-> new_topics \cap Removed(lastUpdate)]

(***************************************************************************)
(* Poll results.  A poll returns nothing, an error record (code and the    *)
(* shape of its text), a genuine record with a payload, or raises.         *)
(* Payloads: "object" a non-empty JSON object, "empty" the JSON object {}, *)
(* "bad_json" text that is not JSON, "bad_utf8" bytes that are not UTF-8,  *)
(* "no_value" a record without value (value() is None).                    *)
(***************************************************************************)
Payloads == {"object", "empty", "bad_json", "bad_utf8", "no_value"}
ErrorCodes == {"_PARTITION_EOF", "UNKNOWN_TOPIC_OR_PART", "OTHER"}
\* the error text: names a subscription pattern after ': ', names something
\* else after ': ', or holds no ': ' at all
ErrorTexts == {"pattern", "other", "no_separator"}

NoPoll == [kind |-> "none", payload |-> "none", code |-> "none",
           text |-> "none", cb |-> FALSE]
PollResults ==
    {[NoPoll EXCEPT !.kind = "timeout"], [NoPoll EXCEPT !.kind = "raise"]}
    \cup {[NoPoll EXCEPT !.kind = "error", !.code = c, !.text = t] :
              c \in ErrorCodes, t \in ErrorTexts}
    \cup {[NoPoll EXCEPT !.kind = "record", !.payload = p, !.cb = b] :
              p \in Payloads, b \in BOOLEAN}

\* deserialize_message: "raise" when an exception other than JSONDecodeError
\* leaves it, "None" when it returns None, else the value it returns
Deserialize(p) ==
    CASE p = "no_value" -> "raise"
      [] p = "bad_utf8" -> "raise"
      [] p = "bad_json" -> "None"
      [] p = "empty" -> "empty"
      [] OTHER -> "object"

\* `if deserialized_data:`
Truthy(v) == v = "object"

\* the classification of an error record raises (split(': ')[1])
ClassifyRaises(r) ==
    r.code = "UNKNOWN_TOPIC_OR_PART" /\ r.text = "no_separator"

\* deserialize_message returned a value for the record (not None, no exception)
Deserializes(r) ==
    r.kind = "record" /\ Deserialize(r.payload) \notin {"raise", "None"}

\* the record is handed to process_message_routine
Dispatches(r) ==
    r.kind = "record" /\ Deserialize(r.payload) # "raise"
                      /\ Truthy(Deserialize(r.payload))

\* an exception leaves the while loop of read_messages
Fatal(r) ==
    \/ r.kind = "raise"
    \/ r.kind = "error" /\ ClassifyRaises(r)
    \/ r.kind = "record" /\ Deserialize(r.payload) = "raise"
    \/ Dispatches(r) /\ r.cb

\* which call raised the exception that leaves the while loop, if any
FatalCause(r) ==
    CASE r.kind = "raise" -> "poll"
      [] r.kind = "error" /\ ClassifyRaises(r) -> "classify"
      [] r.kind = "record" /\ Deserialize(r.payload) = "raise" -> r.payload
      [] Dispatches(r) /\ r.cb -> "callback"
      [] OTHER -> "none"

\* nothing is recorded about a construction
NoCtor == [empty |-> FALSE, faults |-> {}]

KafkaFields ==
    /\ kpc = "new"
    /\ cpc = "idle"
    /\ rpc = "idle"
    /\ current_topics = {}
    /\ is_running = TRUE
    /\ retry_delay = InitialRetryDelay
    /\ handle = "none"
    /\ subscription = {}
    /\ closeCalls = 0
    /\ fatal = "none"
    /\ dispatched = <<>>
    /\ deserialized = <<>>
    /\ lastUpdate = NoUpdate
    /\ ctor = NoCtor

\* the broker calls of the constructor that raised
Faults(sub1, listOk, sub2) ==
    IF sub1 = "raise" THEN {"subscribe"}
    ELSE IF ~listOk THEN {"list"}
    ELSE IF /\ Resubscribes(NewTopics(brokerTopics, current_topics))
            /\ sub2 = "raise"
    THEN {"resubscribe"}
    ELSE {}

\* __init__: Consumer(configs), subscribe(), topic_update(), thread objects
Construct ==
    /\ kpc = "new"
    /\ handle' = "open"
    /\ is_running' = TRUE
    /\ retry_delay' = InitialRetryDelay
    /\ \E sub1 \in SubscribeOutcomes, listOk \in BOOLEAN,
          sub2 \in SubscribeOutcomes :
        /\ ctor' = [empty |-> brokerTopics = {},
                     faults |-> Faults(sub1, listOk, sub2)]
        /\ IF SubscribePropagates(sub1)
           THEN /\ kpc' = "failed"
                /\ subscription' =
                       SubscriptionAfter(subscription, SubscribeArgs({}))
                /\ UNCHANGED <<current_topics, lastUpdate>>
           ELSE /\ TopicUpdate("open", listOk, sub2)
                /\ subscription' =
                       UpdateSubscription(
                           SubscriptionAfter(subscription, SubscribeArgs({})),
                           "open", listOk)
                /\ kpc' = IF TopicUpdateRaises("open", listOk, sub2)
                          THEN "failed" ELSE "constructed"
    /\ UNCHANGED <<cpc, rpc, brokerTopics, closeCalls, fatal,
                   dispatched, deserialized>>
    /\ UNCHANGED <<fleetVars, labelVars>>

\* a start() that also ran topic_update() on the calling thread
Start_Refreshing ==
    /\ kpc = "constructed"
    /\ kpc' = "started"
    /\ cpc' = "loop"
    /\ rpc' = "check"
    /\ \E listOk \in BOOLEAN, subOut \in SubscribeOutcomes :
        /\ TopicUpdate(handle, listOk, subOut)
        /\ subscription' =
               UpdateSubscription(subscription, handle, listOk)
    /\ ctor' = NoCtor
    /\ UNCHANGED <<brokerTopics, is_running, retry_delay, handle, closeCalls,
                   fatal, dispatched, deserialized>>
    /\ UNCHANGED <<fleetVars, labelVars>>

\* start(): both threads begin; the record of the construction, which
\* describes the object before its threads exist, ends here
Start ==
    /\ kpc = "constructed"
    /\ kpc' = "started"
    /\ cpc' = "loop"
    /\ rpc' = "check"
    /\ ctor' = NoCtor
    /\ UNCHANGED <<brokerTopics, current_topics, is_running, retry_delay,
                   handle, closeCalls, fatal, dispatched, deserialized,
                   lastUpdate>>
    /\ UNCHANGED subscription
    /\ UNCHANGED <<fleetVars, labelVars>>

\* close() on a handle that is already closed raises RuntimeError in some
\* versions of the client and returns in others
CloseMayRaise(h) == h = "closed"

\* stop(): lines 52-53; the joins follow unless close() raised
Stop ==
    /\ kpc = "started"
    /\ is_running' = FALSE
    /\ closeCalls' = closeCalls + 1
    /\ handle' = "closed"
    /\ \E closeRaises \in BOOLEAN :
        kpc' = IF CloseMayRaise(handle) /\ closeRaises
               THEN "stop_raised" ELSE "joining"
    /\ UNCHANGED <<cpc, rpc, brokerTopics, current_topics, retry_delay, fatal, dispatched, deserialized, lastUpdate,
                   ctor>>
    /\ UNCHANGED subscription
    /\ UNCHANGED <<fleetVars, labelVars>>

\* stop(): lines 56-57 return once both threads have ended
StopJoined ==
    /\ kpc = "joining"
    /\ cpc = "done"
    /\ rpc = "done"
    /\ kpc' = "stopped"
    /\ UNCHANGED <<cpc, rpc, brokerTopics, current_topics, is_running,
                   retry_delay, handle, closeCalls, fatal, dispatched, deserialized, lastUpdate, ctor>>
    /\ UNCHANGED subscription
    /\ UNCHANGED <<fleetVars, labelVars>>

\* _periodic_topic_update: `while self.is_running`
RefreshCheck ==
    /\ rpc = "check"
    /\ rpc' = IF is_running THEN "sleep" ELSE "done"
    /\ UNCHANGED <<kpc, cpc, brokerTopics, current_topics, is_running,
                   retry_delay, handle, closeCalls, fatal, dispatched, deserialized, lastUpdate, ctor>>
    /\ UNCHANGED subscription
    /\ UNCHANGED <<fleetVars, labelVars>>

\* _periodic_topic_update: where the thread goes after a cycle; `except
\* Exception` logs whatever the cycle raised
AfterCycle_Propagate(raises) == IF raises THEN "done" ELSE "check"
AfterCycle(raises) == "check"

\* _periodic_topic_update: sleep, topic_update(), any exception is logged
RefreshCycle ==
    /\ rpc = "sleep"
    /\ \E listOk \in BOOLEAN, subOut \in SubscribeOutcomes :
        /\ TopicUpdate(handle, listOk, subOut)
        /\ subscription' =
               UpdateSubscription(subscription, handle, listOk)
        /\ rpc' = AfterCycle(TopicUpdateRaises(handle, listOk, subOut))
    /\ UNCHANGED <<kpc, cpc, brokerTopics, is_running, retry_delay, handle,
                   closeCalls, fatal, dispatched, deserialized,
                   ctor>>
    /\ UNCHANGED <<fleetVars, labelVars>>

\* poll() on a closed handle raises
PollPossible(r) == handle # "open" => r.kind = "raise"

\* read_messages: one iteration of the while loop
Poll ==
    /\ cpc = "loop"
    /\ \E r \in PollResults :
        /\ PollPossible(r)
        /\ Deserializes(r) => Len(deserialized) < MaxDispatch
        /\ fatal' = FatalCause(r)
        /\ deserialized' = IF Deserializes(r)
                           THEN Append(deserialized, r.payload)
                           ELSE deserialized
        /\ dispatched' = IF Dispatches(r)
                         THEN Append(dispatched, r.payload) ELSE dispatched
        /\ cpc' = IF Fatal(r) THEN "except" ELSE "loop"
    /\ UNCHANGED <<kpc, rpc, brokerTopics, current_topics, is_running,
                   retry_delay, handle, closeCalls, lastUpdate,
                   ctor>>
    /\ UNCHANGED subscription
    /\ UNCHANGED <<fleetVars, labelVars>>

\* the value the except clause gives its local name retry_delay
LocalRetryDelay(delay) == Min(delay * 2, MaxRetryDelay)

\* self.retry_delay after the except clause: only the local name is assigned
BackoffAfter_Stored(delay) == LocalRetryDelay(delay)
BackoffAfter(delay) == delay

\* read_messages: the except clause (log, sleep self.retry_delay); the
\* name `e` is unbound when the clause ends
Except ==
    /\ cpc = "except"
    /\ retry_delay' = BackoffAfter(retry_delay)
    /\ fatal' = "none"
    /\ cpc' = "finally"
    /\ UNCHANGED <<kpc, rpc, brokerTopics, current_topics, is_running, handle,
                   closeCalls, dispatched, deserialized,
                   lastUpdate, ctor>>
    /\ UNCHANGED subscription
    /\ UNCHANGED <<fleetVars, labelVars>>

\* the handle after the finally clause of read_messages: consumer.close()
AfterFinally_Leak(h) == h
AfterFinally(h) == "closed"

\* read_messages: the finally clause closes the handle; the thread ends
Finally ==
    /\ cpc = "finally"
    /\ closeCalls' = closeCalls + 1
    /\ handle' = AfterFinally(handle)
    /\ cpc' = "done"
    /\ UNCHANGED <<kpc, rpc, brokerTopics, current_topics, is_running,
                   retry_delay, fatal, dispatched, deserialized,
                   lastUpdate, ctor>>
    /\ UNCHANGED subscription
    /\ UNCHANGED <<fleetVars, labelVars>>

\* the broker gains a topic (auto-created on first produce)
CreateTopic ==
    /\ \E t \in Topics \ brokerTopics : brokerTopics' = brokerTopics \cup {t}
    /\ UNCHANGED <<kpc, cpc, rpc, current_topics, is_running, retry_delay,
                   handle, closeCalls, fatal, dispatched, deserialized,
                   lastUpdate, ctor>>
    /\ UNCHANGED subscription
    /\ UNCHANGED <<fleetVars, labelVars>>

\* the broker loses a topic
DeleteTopic ==
    /\ \E t \in brokerTopics : brokerTopics' = brokerTopics \ {t}
    /\ UNCHANGED <<kpc, cpc, rpc, current_topics, is_running, retry_delay,
                   handle, closeCalls, fatal, dispatched, deserialized,
                   lastUpdate, ctor>>
    /\ UNCHANGED subscription
    /\ UNCHANGED <<fleetVars, labelVars>>

KafkaNext ==
    \/ Construct
    \/ Start
    \/ Stop
    \/ StopJoined
    \/ RefreshCheck
    \/ RefreshCycle
    \/ Poll
    \/ Except
    \/ Finally
    \/ CreateTopic
    \/ DeleteTopic

(***************************************************************************)
(* Vehicle configurations (the constructors of the two managers).  A value *)
(* of anomaly_classes is the string "all" or an explicit list.  An entry   *)
(* of cfg.vehicles is a name (form "str") or a one-key mapping from the    *)
(* name to overrides, which may or may not hold anomaly_classes.           *)
(***************************************************************************)
AnomalyClassesEnd == 19
ProducerFirstClass == 0
ConsumerFirstClass == 1

\* list(range(a, b))
Range(a, b) == [k \in 1..(b - a) |-> a + k - 1]

ExplicitLists == {<<>>, <<0>>, <<3, 1>>}
AllValue == [all |-> TRUE, list |-> <<>>]
Explicit(l) == [all |-> FALSE, list |-> l]
ClassValues == {AllValue} \cup {Explicit(l) : l \in ExplicitLists}

NameOnly == [form |-> "str", has |-> FALSE, val |-> AllValue]
VehicleEntries ==
    {NameOnly, [NameOnly EXCEPT !.form = "mapping"]}
    \cup [form : {"mapping"}, has : {TRUE}, val : ClassValues]

\* what "all" is replaced with by each manager
AllClasses_Same(k) == Range(ConsumerFirstClass, AnomalyClassesEnd)
AllClasses(k) ==
    IF k = "producer" THEN Range(ProducerFirstClass, AnomalyClassesEnd)
    ELSE Range(ConsumerFirstClass, AnomalyClassesEnd)

\* the default configuration copied and updated with the vehicle's overrides
Merged(default, v) ==
    IF v.form = "mapping" /\ v.has THEN v.val ELSE default

\* the anomaly_classes the constructor stores for one vehicle
Resolved(k, default, v) ==
    IF Merged(default, v).all
    THEN Explicit(AllClasses(k))
    ELSE Merged(default, v)

\* the constructor has run over all of cfg.vehicles
LabelFields ==
    /\ default_anomaly_classes = AllValue
    /\ cfg_vehicles = [w \in Workers |-> NameOnly]
    /\ vehicle_configs =
           [w \in Workers |-> Resolved(kind, default_anomaly_classes,
                                       cfg_vehicles[w])]

\* __init__: one iteration of `for vehicle in cfg.vehicles`
ResolveVehicle ==
    /\ Len(vehicle_configs) < NumWorkers
    /\ vehicle_configs' =
           Append(vehicle_configs,
                  Resolved(kind, default_anomaly_classes,
                           cfg_vehicles[Len(vehicle_configs) + 1]))
    /\ UNCHANGED <<default_anomaly_classes, cfg_vehicles>>
    /\ UNCHANGED <<fleetVars, kafkaVars>>

LabelNext == ResolveVehicle

(***************************************************************************)
(* Specifications                                                          *)
(***************************************************************************)
InitLabels ==
    /\ kind \in Kinds
    /\ vehicles = NumWorkers
    /\ ip = [w \in Workers |-> TRUE]
    /\ FleetFields
    /\ KafkaFields
    /\ brokerTopics = {}
    /\ default_anomaly_classes \in ClassValues
    /\ cfg_vehicles \in [Workers -> VehicleEntries]
    /\ vehicle_configs = <<>>

SpecLabels == InitLabels /\ [][LabelNext]_vars

InitFleet ==
    /\ FleetStart
    /\ KafkaFields
    /\ brokerTopics = {}
    /\ LabelFields

InitKafka ==
    /\ kind = "consumer"
    /\ vehicles = NumWorkers
    /\ ip = [w \in Workers |-> TRUE]
    /\ FleetFields
    /\ KafkaFields
    /\ brokerTopics \in SUBSET Topics
    /\ LabelFields

SpecFleet == InitFleet /\ [][FleetNext]_vars

SpecKafka == InitKafka /\ [][KafkaNext]_vars

\* a refresh cycle whose listing succeeded
RefreshListed == RefreshCycle /\ lastUpdate'.ok

\* Scheduling: a thread that can take its next step takes it.  A poll on a
\* closed handle raises at once; a poll on an open handle may block or time
\* out for ever, so only the former is required to happen.  A broker asked
\* again and again on an open handle answers a listing at some time.
FairKafka ==
    /\ WF_vars(Poll /\ handle # "open")
    /\ WF_vars(Except)
    /\ WF_vars(Finally)
    /\ WF_vars(RefreshCheck)
    /\ WF_vars(RefreshCycle)
    /\ SF_vars(RefreshListed)
    /\ WF_vars(StopJoined)

SpecKafkaFair == InitKafka /\ [][KafkaNext]_vars /\ FairKafka

(***************************************************************************)
(* Claims about the fleet managers (checked under SpecFleet)               *)
(***************************************************************************)
OutcomesOf(w) == {k \in 1..Len(results) : results[k].w = w}

\* C1: when start_all_* has returned, the result list holds exactly one
\* outcome for every known worker.
C1_OneOutcomePerWorker ==
    started =>
        /\ Len(results) = NumWorkers
        /\ \A w \in Workers : Cardinality(OutcomesOf(w)) = 1

\* C2: /configure and /start are only ever POSTed to a candidate whose
\* health poll returned a 2xx response with a marker body.
C2_PostsOnlyToHealthy2xx == sentTo \subseteq healthy2xx

\* C3: /start is POSTed only after /configure of the same attempt returned
\* 2xx; a /configure that did not return 2xx means no /start and a failure
\* outcome for that worker.
C3_StartOnlyAfterConfigure2xx ==
    /\ startResp # NoResp => Is2xx(cfgResp)
    /\ (cfgResp # NoResp /\ ~Is2xx(cfgResp) /\ pc = "loop") =>
           /\ startResp = NoResp
           /\ Len(results) > 0
           /\ ~results[Len(results)].ok

\* C4: when stop_all_* has ended, every known worker got at least one
\* POST /stop and no exception left stop_all_*.
C4_EveryWorkerGetsStop ==
    stopDone =>
        /\ ~raised
        /\ \A w \in Workers : Len(stopSent[w]) >= 1

AllFailed(seq) == \A k \in 1..Len(seq) : seq[k].failed

\* C5: a stop POSTs to the name-based address first, makes exactly one
\* fallback POST to the direct address iff the first failed and the direct
\* address is known, and counts as failed only if every attempt failed.
C5_StopPrimaryThenFallback ==
    \A w \in Workers :
        stopOutcome[w] # "none" =>
            /\ Len(stopSent[w]) \in {1, 2}
            /\ stopSent[w][1].addr = "host"
            /\ Len(stopSent[w]) = 2 <=>
                   (stopSent[w][1].failed /\ ip[w])
            /\ Len(stopSent[w]) = 2 => stopSent[w][2].addr = "ip"
            /\ stopOutcome[w] = "failed" <=> AllFailed(stopSent[w])

\* C6: the probe tries the name-based address, then the direct address: the
\* second is polled only after the first's deadline passed without an
\* accepted answer; an accepted answer selects its candidate at once, so the
\* first is selected whenever it gives one, the second when only it does,
\* and the result is "none" only when both deadlines passed without one.
C6_ProbeOrder ==
    /\ "ip" \in polled =>
           /\ "host" \in polled
           /\ "host" \notin validSeen
           /\ hostLeft <= 0
    /\ (pc = "health" /\ cand = "ip") => hostLeft <= 0
    /\ validSeen # {} => (selected \in validSeen /\ validSeen = {selected})
    /\ selected = "host" => polled = {"host"}
    /\ selected = "ip" => polled = {"host", "ip"}
    /\ selected = "none" =>
           /\ validSeen = {}
           /\ polled = {"host", "ip"}
           /\ hostLeft <= 0
    /\ (pc = "health" /\ remaining > 0) => selected = "pending"

\* C6 witness: the first candidate was polled until its deadline without an
\* accepted answer and the second was then selected.
C6_Witness_SecondSelected ==
    /\ selected = "ip"
    /\ polled = {"host", "ip"}
    /\ hostLeft <= 0
    /\ pc = "configure"

\* C25: when start_producer or start_consumer has returned, a failure
\* outcome means that no POST /start of that attempt got a 2xx response, and
\* a success outcome means that both /configure and /start got 2xx.
C25_OutcomeMatchesWorkerState ==
    (op = "start_all" /\ pc = "loop" /\ Len(results) > 0) =>
        /\ ~results[Len(results)].ok => ~Is2xx(startResp)
        /\ results[Len(results)].ok =>
               (Is2xx(cfgResp) /\ Is2xx(startResp))

(***************************************************************************)
(* Claims about the vehicle configurations (checked under SpecLabels)      *)
(***************************************************************************)

\* C17: for every vehicle the constructor has processed, if its effective
\* anomaly_classes (the override when there is one, else the default) is
\* "all", the producer manager stores exactly the list 0..18 and the consumer
\* manager exactly 1..18; an explicit list is stored unchanged.
C17_LabelExpansion ==
    \A w \in 1..Len(vehicle_configs) :
        LET v == cfg_vehicles[w]
            given == IF v.form = "mapping" /\ v.has
                     THEN v.val ELSE default_anomaly_classes
            got == vehicle_configs[w]
        IN  /\ ~got.all
            /\ (given.all /\ kind = "producer") =>
                   /\ Len(got.list) = 19
                   /\ \A k \in 0..18 : got.list[k + 1] = k
            /\ (given.all /\ kind = "consumer") =>
                   /\ Len(got.list) = 18
                   /\ \A k \in 1..18 : got.list[k] = k
            /\ ~given.all => got = given

\* C17 witness: a producer manager has processed all vehicles: one whose
\* override is "all" over an explicit default, one that keeps an explicit
\* list.
C17_Witness_ProducerAllAndExplicit ==
    /\ kind = "producer"
    /\ Len(vehicle_configs) = NumWorkers
    /\ ~default_anomaly_classes.all
    /\ \E w \in Workers :
        /\ cfg_vehicles[w].has
        /\ cfg_vehicles[w].val.all
        /\ Len(vehicle_configs[w].list) = 19
    /\ \E w \in Workers :
        /\ ~cfg_vehicles[w].has
        /\ vehicle_configs[w] = default_anomaly_classes

(***************************************************************************)
(* Claims about KafkaMessageConsumer (checked under SpecKafka)             *)
(***************************************************************************)

\* C7: a topic_update whose listing succeeds computes as new exactly the
\* listed topics absent from the previous snapshot and issues one subscribe
\* call exactly when there is such a topic: none when the listing is
\* unchanged, exactly one (for exactly that topic) when one topic appeared.
C7_ResubscribeIffNew ==
    /\ lastUpdate.ok =>
           /\ lastUpdate.new = lastUpdate.listing \ lastUpdate.prev
           /\ lastUpdate.subs = 1 <=> lastUpdate.listing \ lastUpdate.prev # {}
           /\ lastUpdate.listing = lastUpdate.prev => lastUpdate.subs = 0
           /\ Cardinality(lastUpdate.listing \ lastUpdate.prev) = 1 =>
                  /\ Cardinality(lastUpdate.new) = 1
                  /\ lastUpdate.subs = 1
    /\ lastUpdate.subs \in {0, 1}

\* C7 witness: a refresh of the resubscription thread found exactly one new
\* topic beside known ones and resubscribed.
C7_Witness_OneNewTopic ==
    /\ kpc = "started"
    /\ lastUpdate.ok
    /\ lastUpdate.prev # {}
    /\ Cardinality(lastUpdate.new) = 1
    /\ lastUpdate.subs = 1

\* C8: after a topic_update whose listing succeeded the snapshot is exactly
\* the listing: a topic that left the listing leaves the snapshot, without a
\* resubscription of its own, and a topic that comes back is new again and
\* is resubscribed.
C8_SnapshotIsListing ==
    /\ lastUpdate.ok =>
           /\ current_topics = lastUpdate.listing
           /\ lastUpdate.listing \subseteq lastUpdate.prev =>
                  lastUpdate.subs = 0
           /\ (lastUpdate.listing \ lastUpdate.prev) \subseteq lastUpdate.new
           /\ lastUpdate.back \subseteq lastUpdate.listing
           /\ lastUpdate.back # {} => lastUpdate.subs = 1
           /\ Removed(lastUpdate) \cap current_topics = {}

\* C8 witness: a topic that the preceding refresh had removed from the
\* snapshot is listed again and this refresh resubscribed for it.
C8_Witness_TopicCameBack ==
    /\ lastUpdate.ok
    /\ lastUpdate.back # {}
    /\ lastUpdate.subs = 1
    /\ current_topics = lastUpdate.listing

\* C9: with zero topics on the broker and no failing broker call, the
\* constructor completes and leaves the snapshot empty; and a refresh that
\* starts from an empty snapshot reports every listed topic as new and
\* resubscribes.
C9_EmptyBrokerStartup ==
    /\ (kpc # "new" /\ ctor.empty
            /\ ctor.faults \cap {"subscribe", "list"} = {}) =>
           /\ kpc # "failed"
           /\ kpc = "constructed" =>
                  (current_topics = {} /\ lastUpdate.subs = 0)
    /\ (lastUpdate.ok /\ lastUpdate.prev = {} /\ lastUpdate.listing # {}) =>
           /\ lastUpdate.new = lastUpdate.listing
           /\ lastUpdate.subs = 1

\* C9 witness: the constructor has completed against a broker without any
\* topic: the listing succeeded, the snapshot is empty, nothing was
\* resubscribed.
C9_Witness_ConstructedOnEmptyBroker ==
    /\ kpc = "constructed"
    /\ ctor.empty
    /\ ctor.faults = {}
    /\ lastUpdate.ok
    /\ lastUpdate.listing = {}
    /\ current_topics = {}
    /\ lastUpdate.subs = 0

Malformed == {"bad_json", "bad_utf8", "no_value"}

\* C10: a record with a malformed payload is never dispatched and never
\* ends read_messages: no malformed payload is ever what raised the
\* exception that left the polling loop.
C10_MalformedNeverFatal ==
    /\ \A k \in 1..Len(dispatched) : dispatched[k] \notin Malformed
    /\ fatal \notin Malformed

\* C11: a poll that returns a record carrying a broker error never ends
\* read_messages: whatever its code and text, the record is not dispatched
\* and no exception leaves its classification.
C11_BrokerErrorNeverFatal ==
    /\ fatal # "classify"
    /\ \A k \in 1..Len(dispatched) : dispatched[k] \in Payloads

\* C12: every record whose payload deserializes to a value, the empty
\* object included, is dispatched once and in poll order: the sequence of
\* dispatches is the sequence of deserialized records.
C12_DispatchEqualsDeserialized == dispatched = deserialized

\* C13: when an exception has left the poll/dispatch sequence, the step that
\* ends the backoff delay returns to the polling loop (a further poll is
\* issued) before the handle is released.
C13_RetryAfterFatal ==
    [][(cpc = "except" /\ cpc' # "except") => cpc' = "loop"]_vars

\* C15: the refresh thread ends only by observing the stop flag: it ends
\* only at its loop test with is_running false, and a cycle, whether or not
\* its listing or its subscribe raised, is followed by the next loop test.
C15_RefreshEndsOnlyOnFlag ==
    [][/\ (rpc # "done" /\ rpc' = "done") => (rpc = "check" /\ ~is_running)
       /\ (rpc = "sleep" /\ rpc' # "sleep") => rpc' = "check"
       /\ (rpc = "check" /\ is_running /\ rpc' # "check") => rpc' = "sleep"]_vars

\* C15 witness: with the stop flag unset a cycle failed (after the
\* constructor's successful listing) and the thread is in its next cycle.
C15_Witness_NextCycleAfterFailure ==
    /\ kpc = "started"
    /\ is_running
    /\ ~lastUpdate.ok
    /\ rpc = "sleep"

\* C18: whichever call raised the exception that left the polling loop
\* (poll, the error classification, the deserialization, the routing
\* callback), the thread goes through its cleanup: whenever the consumption
\* thread has ended, close() has been called on the handle and the handle
\* is released.
C18_CleanupClosesHandle ==
    /\ cpc = "except" =>
           fatal \in {"poll", "classify", "bad_utf8", "no_value", "callback"}
    /\ cpc = "done" =>
           /\ handle = "closed"
           /\ closeCalls >= 1
    /\ (cpc \in {"except", "finally"} /\ kpc = "started") => handle = "open"

\* C18 witness: after a dispatch the thread has ended on a fatal error
\* before any stop(), and its cleanup, not stop(), released the handle.
C18_Witness_ClosedByCleanup ==
    /\ cpc = "done"
    /\ Len(dispatched) >= 1
    /\ kpc = "started"
    /\ handle = "closed"
    /\ closeCalls = 1

C20_TaskOwnership ==
    [][kpc # "new" =>
         /\ (current_topics' # current_topics \/ lastUpdate' # lastUpdate) =>
                (rpc = "sleep" /\ rpc' = "check" /\ kpc' = kpc /\ cpc' = cpc)
         /\ (dispatched' # dispatched \/ deserialized' # deserialized
                                       \/ fatal' \notin {fatal, "none"}) =>
                (cpc = "loop" /\ rpc' = rpc /\ kpc' = kpc
                              /\ current_topics' = current_topics)]_vars

\* C20 witness: after start() the refresh thread has rewritten a non-empty
\* snapshot and resubscribed, and the consumption thread has polled and
\* dispatched a record.
C20_Witness_BothThreadsActed ==
    /\ kpc = "started"
    /\ lastUpdate.ok
    /\ lastUpdate.prev # {}
    /\ lastUpdate.subs = 1
    /\ Len(dispatched) >= 1

\* C21: every subscribe call, at startup and on every resubscription, asks
\* for exactly the three fixed category patterns and never for topic
\* names: once the constructor has made its first call the request is the
\* fixed patterns in every state, whatever number of resubscriptions
\* followed.
C21_SubscribeFixedPatterns ==
    /\ kpc # "new" => subscription = CategoryPatterns
    /\ \A e \in subscription : e.pattern
    /\ Cardinality(subscription) \in {0, 3}

\* C21 witness: after the startup subscription the refresh thread found a
\* new topic beside known ones and resubscribed; the requested subscription
\* is the fixed patterns.
C21_Witness_Resubscribed ==
    /\ kpc = "started"
    /\ lastUpdate.ok
    /\ lastUpdate.prev # {}
    /\ lastUpdate.subs = 1
    /\ subscription = CategoryPatterns

\* C22: a refresh cycle whose listing fails leaves current_topics and the
\* requested subscription as they were and calls subscribe not at all; the
\* first successful cycle after it reports as new every listed topic absent
\* from that unchanged snapshot and resubscribes when there is one.
C22_FailedListingLeavesSnapshot ==
    [][(rpc = "sleep" /\ rpc' # "sleep") =>
         /\ ~lastUpdate'.ok =>
                /\ current_topics' = current_topics
                /\ subscription' = subscription
                /\ lastUpdate'.subs = 0
                /\ lastUpdate'.prev = current_topics
         /\ (~lastUpdate.ok /\ lastUpdate'.ok) =>
                /\ lastUpdate.prev = current_topics
                /\ lastUpdate'.new = brokerTopics \ lastUpdate.prev
                /\ lastUpdate'.new # {} => lastUpdate'.subs = 1
                /\ current_topics' = brokerTopics]_vars

\* C22 witness: on an open handle a refresh cycle failed while the broker
\* has a topic that the non-empty snapshot does not hold yet.
C22_Witness_TopicPendingAfterFailure ==
    /\ kpc = "started"
    /\ handle = "open"
    /\ rpc = "check"
    /\ ~lastUpdate.ok
    /\ current_topics # {}
    /\ lastUpdate.prev = current_topics
    /\ brokerTopics \ current_topics # {}

\* C23: in every execution close() is called at most once on the handle.
C23_CloseAtMostOnce == closeCalls <= 1

\* C24: once the handle is closed no thread calls list_topics, subscribe or
\* poll on it: no refresh cycle (which begins with list_topics) and no
\* iteration of the polling loop (which begins with poll) runs on a closed
\* handle.
C24_NoCallsAfterClose ==
    [][handle = "closed" =>
         /\ ~(rpc = "sleep" /\ rpc' = "check")
         /\ ~(cpc = "loop" /\ cpc' # "loop")]_vars

(***************************************************************************)
(* Claims about the threads of KafkaMessageConsumer under fair scheduling  *)
(* (checked under SpecKafkaFair)                                           *)
(***************************************************************************)

\* C14: stop() sets the stop flag, closes the handle and returns only after
\* both threads have ended; and once stop() has been called, both threads
\* end and stop() returns.
C14_StopJoinsBothThreads ==
    /\ [](kpc = "stopped" =>
              cpc = "done" /\ rpc = "done" /\ ~is_running /\ handle = "closed")
    /\ [](~is_running => <>(kpc = "stopped"))

\* C16: while stop() has not been called, a topic that is on the broker and
\* stays there is eventually in the snapshot, whatever happened in the
\* consumption thread.
C16_TopicEventuallyDiscovered ==
    \A t \in Topics :
        [](kpc = "started" /\ t \in brokerTopics =>
               <>(t \in current_topics \/ t \notin brokerTopics
                                       \/ kpc # "started"))

====
